---- MODULE Spec2Model ----
(***************************************************************************)
(* Lexis: the paragraph task scheduler of useBookReader (engine.enqueue,   *)
(* drain, process, reset; the sessionStorage cache; the stream effect and  *)
(* chapter navigation), processChunk of the enrichment client, and the     *)
(* streaming chapter parser streamBookChapters.                            *)
(*                                                                         *)
(* Texts are sequences of one-character strings.  Paragraph indices are    *)
(* 0-based as in the source; TLA+ sequences are 1-based, so paragraph idx  *)
(* is element idx + 1 of the paragraph collection.                         *)
(***************************************************************************)
EXTENDS Integers, Sequences, FiniteSets, TLC

VARIABLES
    \* ---- useBookReader ----
    book,          \* bookRef.current: the book id, 0 for null
    apiKey,        \* apiKeyRef.current is a non-empty string
    density,       \* densityRef.current
    effectPending, \* the book changed at render, the stream effect has not run yet
    chaptersRef,   \* chaptersRef.current: the chunks the stream has emitted
    chapterIdx,    \* chapterIdxRef.current (= currentChapterIdx)
    paragraphs,    \* paragraphsRef.current (= the paragraphs state)
    fetchStatus,   \* fetchStatus
    stream,        \* the stream of the last effect run: none, open, failed
    streamBook,    \* the book that stream reads (the effect's closure)
    firstShown,    \* firstShown of the last effect run
    concurrent,    \* concurrentRef.current
    queue,         \* queueRef.current
    inFlight,      \* inFlightRef.current
    ops,           \* invocations of engine.process suspended in processChunk
    cache,         \* sessionStorage entries lexis_chunk_*: key -> segments
    sessionFull,   \* sessionStorage.setItem throws (quota)
    localFull,     \* localStorage.setItem throws (quota, or storage disabled)
    \* ---- history, not read by the program ----
    gen,           \* number of resets so far: the chunk generation
    disturbed,     \* disturbances so far: full storage, failed enrichments,
                   \* density changes, chapter navigations, book changes
    last,          \* the operation that made the last step, and what it started
    \* ---- processChunk on its own ----
    pc,            \* one invocation of processChunk: its arguments, where it
                   \* is, the calls it made and what it returned
    \* ---- writeCache on its own ----
    session,       \* sessionStorage as a whole: its items in key order, the
                   \* clock, and what the last writeCache removed and wrote
    \* ---- streamBookChapters on its own ----
    doc,           \* the text the response body delivers, as lines
    fed,           \* how much of it the reads have delivered
    parser         \* the local variables of streamBookChapters, the chunks
                   \* handed to onChapter, and the lines of the last read

hookVars == << book, apiKey, density, effectPending, chaptersRef, chapterIdx,
               paragraphs, fetchStatus, stream, streamBook, firstShown,
               concurrent, queue, inFlight, ops, cache, sessionFull, localFull,
               gen, disturbed, last >>

parserVars == << doc, fed, parser >>

vars == << hookVars, pc, session, parserVars >>

(***************************************************************************)
(* Bounds of the model                                                     *)
(***************************************************************************)
\* paragraphs of the one chunk of the long book (book 3)
MaxParas == 4
\* disturbances in one behaviour of Spec
MaxDisturbed == 1
\* processChunk's short inputs have 1..MaxTextLen characters
MaxTextLen == 3
\* processChunk's long inputs have MAX_PARA_CHARS - 1 .. MAX_PARA_CHARS +
\* MaxOver characters
MaxOver == 1
\* the parser's short documents have 0..MaxShortDoc paragraphs
MaxShortDoc == 3
\* its long documents have one paragraph less than, exactly, and one more
\* than 1..MaxFullChunks times STREAM_CHUNK_SIZE paragraphs
MaxFullChunks == 2
\* a read that ends inside a line delivers ReadChars characters of it
ReadChars == 5

(***************************************************************************)
(* Program constants                                                       *)
(***************************************************************************)
MAX_CONCURRENT == 2
MAX_PARA_CHARS == 3000
STREAM_CHUNK_SIZE == 30
\* flushParagraph keeps a paragraph of more than MIN_PARA_CHARS characters
MIN_PARA_CHARS == 15
\* a heading line has fewer than HEADING_MAX_CHARS characters
HEADING_MAX_CHARS == 80

\* Math.max
Max(a, b) == IF a > b THEN a ELSE b

(***************************************************************************)
(* Text                                                                    *)
(***************************************************************************)
DigitChars == << "0", "1", "2", "3", "4", "5", "6", "7", "8", "9" >>

\* String(n) of a number n >= 0: its decimal digits
RECURSIVE Decimal(_)
Decimal(n) ==
    IF n < 10 THEN << DigitChars[n + 1] >>
    ELSE Decimal(n \div 10) \o << DigitChars[(n % 10) + 1] >>

\* `Part ${n}`
PartTitle(n) == << "P", "a", "r", "t", " " >> \o Decimal(n)

UpperChars == << "A", "B", "C", "D", "E", "F", "G", "H", "I", "J", "K", "L", "M", "N", "O", "P", "Q", "R", "S", "T", "U", "V", "W", "X", "Y", "Z" >>
LowerChars == << "a", "b", "c", "d", "e", "f", "g", "h", "i", "j", "k", "l", "m", "n", "o", "p", "q", "r", "s", "t", "u", "v", "w", "x", "y", "z" >>

Range(f) == { f[i] : i \in DOMAIN f }

\* The i flag on an ASCII character: letters compare without case
Fold(c) ==
    IF \E i \in 1..26 : UpperChars[i] = c
    THEN LowerChars[CHOOSE i \in 1..26 : UpperChars[i] = c]
    ELSE c

FoldAll(t) == [ i \in 1..Len(t) |-> Fold(t[i]) ]

\* \w
IsWordChar(c) == Fold(c) \in Range(LowerChars) \cup Range(DigitChars) \cup { "_" }

\* \s, and the white space trim() removes
IsSpace(c) == c \in { " ", "\t", "\r", "\n" }

\* trimEnd(): up to the last character that is not white space
trimEnd(t) ==
    IF \A i \in 1..Len(t) : IsSpace(t[i]) THEN << >>
    ELSE SubSeq(t, 1, CHOOSE i \in 1..Len(t) :
                         ~IsSpace(t[i]) /\ \A j \in (i + 1)..Len(t) : IsSpace(t[j]))

\* trimStart(): from the first character that is not white space
trimStart(t) ==
    IF \A i \in 1..Len(t) : IsSpace(t[i]) THEN << >>
    ELSE SubSeq(t, CHOOSE i \in 1..Len(t) :
                      ~IsSpace(t[i]) /\ \A j \in 1..(i - 1) : IsSpace(t[j]),
                Len(t))

trim(t) == trimStart(trimEnd(t))

StartsWith(t, w) == Len(t) >= Len(w) /\ SubSeq(t, 1, Len(w)) = w

\* replace(/  +/g, ' '): every run of two or more spaces, from the left,
\* becomes one space
RECURSIVE collapseSpaces(_)
collapseSpaces(t) ==
    IF \A i \in 1..(Len(t) - 1) : ~(t[i] = " " /\ t[i + 1] = " ") THEN t
    ELSE LET i == CHOOSE i \in 1..(Len(t) - 1) :
                     /\ t[i] = " " /\ t[i + 1] = " "
                     /\ \A j \in 1..(i - 1) : ~(t[j] = " " /\ t[j + 1] = " ")
             e == CHOOSE e \in (i + 1)..Len(t) :
                     /\ \A j \in i..e : t[j] = " "
                     /\ (e = Len(t) \/ t[e + 1] # " ")
         IN  SubSeq(t, 1, i) \o collapseSpaces(SubSeq(t, e + 1, Len(t)))

\* The alternatives of CHAPTER_RE
Keywords ==
    { << "c", "h", "a", "p", "t", "e", "r" >>,
      << "p", "a", "r", "t" >>,
      << "b", "o", "o", "k" >>,
      << "s", "e", "c", "t", "i", "o", "n" >>,
      << "a", "c", "t" >>,
      << "s", "c", "e", "n", "e" >>,
      << "p", "r", "o", "l", "o", "g", "u", "e" >>,
      << "e", "p", "i", "l", "o", "g", "u", "e" >>,
      << "i", "n", "t", "r", "o", "d", "u", "c", "t", "i", "o", "n" >>,
      << "p", "r", "e", "f", "a", "c", "e" >>,
      << "f", "o", "r", "e", "w", "o", "r", "d" >> }

\* CHAPTER_RE.test(trimmed): a keyword at the start, in any case, followed
\* by a word boundary; the character class after it matches the empty string
CHAPTER_RE(trimmed) ==
    \E k \in Keywords :
        /\ StartsWith(FoldAll(trimmed), k)
        /\ (Len(trimmed) = Len(k) \/ ~IsWordChar(trimmed[Len(k) + 1]))

\* /\*{3}\s*<words>/i.test(line): three stars, white space, the words,
\* anywhere in the line
MarkerRe(line, words) ==
    \E i \in 1..(Len(line) - 2) :
        /\ line[i] = "*" /\ line[i + 1] = "*" /\ line[i + 2] = "*"
        /\ \E j \in (i + 3)..(Len(line) + 1) :
              /\ \A m \in (i + 3)..(j - 1) : IsSpace(line[m])
              /\ StartsWith(SubSeq(FoldAll(line), j, Len(line)), words)

START_OF == << "s", "t", "a", "r", "t", " ", "o", "f" >>
\* Faulty variant of END_OF: another end marker is looked for
END_OF_FILE == << "e", "n", "d", " ", "o", "f", " ", "f", "i", "l", "e" >>

END_OF == << "e", "n", "d", " ", "o", "f" >>

(***************************************************************************)
(* The documents the reader streams.  Book 1 has two chunks, of 2 and of 3 *)
(* paragraphs; book 2 has one chunk of one paragraph; book 3, the long     *)
(* book, has one chunk of MaxParas paragraphs.  The raw text of a          *)
(* paragraph names its book, chunk and index, so that the texts of         *)
(* different paragraphs differ.                                            *)
(***************************************************************************)
LongBook == 3
Densities == {20, 35}

ChunksIn(b) == IF b = 1 THEN 2 ELSE 1
ParasIn(b, c) ==
    IF b = LongBook THEN MaxParas
    ELSE IF b = 1 THEN (IF c = 0 THEN 2 ELSE 3)
    ELSE 1

RawText(b, c, p) == << "b" >> \o Decimal(b) \o << "c" >> \o Decimal(c)
                        \o << "p" >> \o Decimal(p)

ChunkOf(b, c) ==
    [ title |-> PartTitle(c + 1),
      paragraphs |-> [ i \in 1..ParasIn(b, c) |-> RawText(b, c, i - 1) ] ]

(***************************************************************************)
(* Segments                                                                *)
(***************************************************************************)
\* segments: null
Null == << [ text |-> << >>, lang |-> "null", baseEn |-> << >> ] >>

\* processChunk's fallback: one English segment holding the whole paragraph
Fallback(paragraphText) ==
    << [ text |-> paragraphText, lang |-> "en", baseEn |-> << >> ] >>

\* processChunk's text: the paragraph cut to MAX_PARA_CHARS characters
CallText(paragraphText) ==
    IF Len(paragraphText) > MAX_PARA_CHARS
    THEN SubSeq(paragraphText, 1, MAX_PARA_CHARS)
    ELSE paragraphText

\* validateSegments(segments, _original), segments a list
validateSegments(segments) ==
    /\ Len(segments) # 0
    /\ \A i \in 1..Len(segments) :
          /\ segments[i].hasText
          /\ segments[i].lang \in {"en", "pl"}

\* TextSegment of a validated response element
AsSegment(s) == [ text |-> s.text, lang |-> s.lang, baseEn |-> s.baseEn ]
AsSegments(resp) == [ i \in 1..Len(resp) |-> AsSegment(resp[i]) ]

\* A response element as parsed from the service's JSON: hasText is
\* typeof s.text === 'string'
Elem(t, l, b) == [ hasText |-> TRUE, text |-> t, lang |-> l, baseEn |-> b ]

\* The service's substitution of a word at a density, as an opaque string
Polish(word, d) == << "~" >> \o word \o << "%" >> \o Decimal(d)

\* The service's answer for a text: its first character kept in English, the
\* rest substituted
Translated(text, d) ==
    << Elem(SubSeq(text, 1, 1), "en", << >>),
       Elem(Polish(SubSeq(text, 2, Len(text)), d), "pl", SubSeq(text, 2, Len(text))) >>

\* What one call of callDeepSeek can come back with in the scheduler's runs:
\* a response list, or a thrown error
TransportError == << [ hasText |-> FALSE, text |-> << >>, lang |-> "throw", baseEn |-> << >> ] >>
ClientAnswers(text, d) == { Translated(text, d), << >>, TransportError }

\* attempt() succeeds: callDeepSeek returned and validateSegments accepted
AttemptOk(answer) == answer # TransportError /\ validateSegments(answer)

\* processChunk(paragraphText, density, apiKey) up to its first await: the
\* first attempt has called the service with the cut text
processChunk(paragraphText, d) ==
    [ raw |-> paragraphText, density |-> d, phase |-> "attempt1", calls |-> 1 ]

\* Faulty variant of AfterFirstFailure: the retry is issued at once
AfterFirstFailureNoWait(o) == [ o EXCEPT !.phase = "attempt2", !.calls = @ + 1 ]

\* processChunk after its first attempt failed: waiting for the 2 s timer
AfterFirstFailure(o) == [ o EXCEPT !.phase = "backoff" ]

\* processChunk after the timer: the second attempt has called the service
AfterTimer(o) == [ o EXCEPT !.phase = "attempt2", !.calls = @ + 1 ]

(***************************************************************************)
(* sessionStorage cache                                                    *)
(***************************************************************************)
cacheKey(bookId, chIdx, pIdx, d) == << bookId, chIdx, pIdx, d >>

\* Faulty variant of readCache: the cache is never consulted
readCacheMiss(c, bookId, chIdx, idx, d) == Null

\* readCache: the entry's segments, or Null
readCache(c, bookId, chIdx, idx, d) ==
    IF cacheKey(bookId, chIdx, idx, d) \in DOMAIN c
    THEN c[cacheKey(bookId, chIdx, idx, d)]
    ELSE Null

\* writeCache: setItem under the key (setItem may throw, which is swallowed)
writeCache(c, bookId, chIdx, idx, d, segs, stored) ==
    IF stored
    THEN [ k \in DOMAIN c \cup { cacheKey(bookId, chIdx, idx, d) } |->
              IF k = cacheKey(bookId, chIdx, idx, d) THEN segs ELSE c[k] ]
    ELSE c

(***************************************************************************)
(* The engine.  Its functions run synchronously up to processChunk's first *)
(* await, calling each other; they are operators on the engine state       *)
(*   e = [paragraphs, queue, inFlight, concurrent, ops, started]           *)
(* where started lists, in order, the process(idx) calls made so far in    *)
(* the running step.  c is the cache at the time of the call.              *)
(***************************************************************************)
Engine == [ paragraphs |-> paragraphs, queue |-> queue, inFlight |-> inFlight,
            concurrent |-> concurrent, ops |-> ops, started |-> << >> ]

Exists(paras, idx) == idx >= 0 /\ idx < Len(paras)

\* Faulty variant of patchParagraph: the patch is dropped
patchParagraphDropped(paras, idx, patch) == paras

\* patchParagraph(idx, patch): nothing if there is no paragraph idx
patchParagraph(paras, idx, patch) ==
    IF ~Exists(paras, idx) THEN paras
    ELSE [ paras EXCEPT ![idx + 1] =
              [ f \in DOMAIN @ |-> IF f \in DOMAIN patch THEN patch[f] ELSE @[f] ] ]

\* setAllParagraphs(chapter.paragraphs.map(r => ({raw: r, segments: null, status: 'idle'})))
Fresh(chapter) ==
    [ i \in 1..Len(chapter.paragraphs) |->
        [ raw |-> chapter.paragraphs[i], segments |-> Null, status |-> "idle" ] ]

RECURSIVE drain(_, _)
RECURSIVE process(_, _, _)
RECURSIVE done(_, _, _)

\* Faulty variant of done: the queue is not drained
doneWithoutDrain(e, idx, c) ==
    [ e EXCEPT !.inFlight = @ \ {idx}, !.concurrent = Max(0, @ - 1) ]

\* done() of process(idx)
done(e, idx, c) ==
    drain([ e EXCEPT !.inFlight = @ \ {idx},
                     !.concurrent = Max(0, @ - 1) ], c)

\* engine.process(idx) up to its first await.  A return inside try runs
\* the finally block as well, so the early exits call done() twice.
process(e, idx, c) ==
    LET cached == readCache(c, book, chapterIdx, idx, density)
        hit == book # 0 /\ apiKey /\ cached # Null
        e0 == [ e EXCEPT !.started = Append(@, [ idx |-> idx, hit |-> hit ]) ]
    IN  IF book = 0 \/ ~apiKey
        THEN done(done(e0, idx, c), idx, c)
        ELSE IF cached # Null
        THEN done(done([ e0 EXCEPT !.paragraphs =
                            patchParagraph(@, idx, [ segments |-> cached, status |-> "done" ]) ],
                       idx, c), idx, c)
        ELSE LET e1 == [ e0 EXCEPT !.paragraphs =
                            patchParagraph(@, idx, [ status |-> "loading" ]) ]
                 rawText == IF Exists(e1.paragraphs, idx)
                            THEN e1.paragraphs[idx + 1].raw ELSE << >>
             IN  IF rawText = << >>
                 THEN done(done(e1, idx, c), idx, c)
                 ELSE [ e1 EXCEPT !.ops = @ \cup
                          { [ idx |-> idx, book |-> book, chIdx |-> chapterIdx,
                              gen |-> gen ] @@ processChunk(rawText, density) } ]

\* Faulty variant of shift: the queue is served from its tail
pop(q) == [ idx |-> q[Len(q)], rest |-> SubSeq(q, 1, Len(q) - 1) ]

\* queueRef.current.shift(): the index taken and the queue left
shift(q) == [ idx |-> Head(q), rest |-> Tail(q) ]

\* engine.drain(), on the engine state given (evaluated once)
drain(given, c) ==
    CHOOSE result \in
      { IF e.concurrent < MAX_CONCURRENT /\ Len(e.queue) > 0
        THEN LET idx == shift(e.queue).idx
                 e1 == [ e EXCEPT !.queue = shift(e.queue).rest ]
             IN  IF idx \in e1.inFlight THEN drain(e1, c)
                 ELSE IF ~Exists(e1.paragraphs, idx)
                         \/ e1.paragraphs[idx + 1].status # "idle" THEN drain(e1, c)
                 ELSE drain(process([ e1 EXCEPT !.inFlight = @ \cup {idx},
                                                !.concurrent = @ + 1 ], idx, c), c)
        ELSE e : e \in { given } } : TRUE

\* Faulty variant of Accepts: the paragraph need not be idle
AcceptsNotIdle(e, idx) ==
    /\ Exists(e.paragraphs, idx)
    /\ idx \notin e.inFlight
    /\ \A i \in 1..Len(e.queue) : e.queue[i] # idx

\* Faulty variant of Accepts: an index already queued is accepted again
AcceptsQueued(e, idx) ==
    /\ Exists(e.paragraphs, idx)
    /\ e.paragraphs[idx + 1].status = "idle"
    /\ idx \notin e.inFlight

\* engine.enqueue(idx) passes its guards
Accepts(e, idx) ==
    /\ Exists(e.paragraphs, idx)
    /\ e.paragraphs[idx + 1].status = "idle"
    /\ idx \notin e.inFlight
    /\ \A i \in 1..Len(e.queue) : e.queue[i] # idx

\* engine.enqueue(idx)
enqueue(e, idx, c) ==
    IF Accepts(e, idx)
    THEN drain([ e EXCEPT !.queue = Append(@, idx) ], c)
    ELSE e

\* Faulty variant of reset: the in-flight set survives
resetKeepsInFlight(e) == [ e EXCEPT !.queue = << >>, !.concurrent = 0 ]

\* engine.reset()
reset(e) == [ e EXCEPT !.queue = << >>, !.inFlight = {}, !.concurrent = 0 ]

\* The engine state becomes the state of the step
Commit(e) ==
    /\ paragraphs' = e.paragraphs
    /\ queue' = e.queue
    /\ inFlight' = e.inFlight
    /\ concurrent' = e.concurrent
    /\ ops' = e.ops

\* The storage conditions do not change during a run
Env == UNCHANGED << apiKey, sessionFull, localFull, pc, session, parserVars >>

\* last: the kind of operation that made the step, whether it belongs to an
\* earlier generation, and the process(idx) calls it made
Note(kind, stale, started) ==
    last' = [ kind |-> kind, stale |-> stale, started |-> started,
              recorded |-> << >> ]

\* The same for a step that resumes engine.process after processChunk: it
\* makes the one call recordWords(segments) of the code, for paragraph idx
NoteSink(kind, stale, started, idx, segments) ==
    last' = [ kind |-> kind, stale |-> stale, started |-> started,
              recorded |-> << [ idx |-> idx, segments |-> segments ] >> ]

(***************************************************************************)
(* Initial state: the hook as constructed, no book yet.  sessionStorage    *)
(* outlives a page reload, so the cache may hold entries of an earlier     *)
(* visit.                                                                  *)
(***************************************************************************)
WarmCache ==
    [ k \in { cacheKey(1, 0, 1, 20), cacheKey(LongBook, 0, 1, 20) } |->
        AsSegments(Translated(RawText(k[1], k[2], k[3]), k[4])) ]

EmptyCache == [ k \in {} |-> Null ]

PcNone == [ raw |-> << >>, density |-> 0, phase |-> "none", calls |-> 0,
            asked |-> << >>, result |-> Null, fellBack |-> FALSE ]

HookInit ==
    /\ book = 0
    /\ apiKey \in BOOLEAN
    /\ density = 20
    /\ effectPending = FALSE
    /\ chaptersRef = << >>
    /\ chapterIdx = 0
    /\ paragraphs = << >>
    /\ fetchStatus = "idle"
    /\ stream = "none"
    /\ streamBook = 0
    /\ firstShown = FALSE
    /\ concurrent = 0
    /\ queue = << >>
    /\ inFlight = {}
    /\ ops = {}
    /\ cache \in { EmptyCache, WarmCache }
    /\ sessionFull \in BOOLEAN
    /\ localFull \in BOOLEAN
    /\ gen = 0
    /\ disturbed = (IF sessionFull THEN 1 ELSE 0) + (IF localFull THEN 1 ELSE 0)
    /\ last = [ kind |-> "init", stale |-> FALSE, started |-> << >>,
                 recorded |-> << >> ]

DocNone == [ kind |-> "none", n |-> 0, terminated |-> TRUE, lines |-> << >>,
             formats |-> {}, res |-> "none" ]
ParserNone ==
    [ phase |-> "none", buffer |-> << >>, inBook |-> FALSE, chapterIndex |-> 0,
      currentTitle |-> << >>, currentParagraphs |-> << >>, pendingLine |-> << >>,
      emitted |-> << >>, lines |-> << >> ]

ParserAtRest ==
    /\ doc = DocNone
    /\ fed = [ lines |-> 0, off |-> 0 ]
    /\ parser = ParserNone

\* sessionStorage below the threshold of pruneCache: the hook's cache is all
\* that is said about it
SessionNone == [ items |-> << >>, now |-> 0, writes |-> 0, removed |-> {},
                 wrote |-> << >> ]

Init == HookInit /\ pc = PcNone /\ session = SessionNone /\ ParserAtRest

(***************************************************************************)
(* Actions                                                                 *)
(***************************************************************************)
\* Reader renders with another book: bookRef.current = book, and the stream
\* effect is scheduled.
SetBook(b) ==
    /\ b # book
    /\ book' = b
    /\ effectPending' = TRUE
    /\ Note("env", FALSE, << >>)
    /\ Env
    /\ UNCHANGED << density, chaptersRef, chapterIdx, paragraphs, fetchStatus,
                    stream, streamBook, firstShown, concurrent, queue, inFlight,
                    ops, cache, gen >>

\* Faulty variant of SetDensity: the entries of the old density are dropped
SetDensityClearsCache(d) ==
    /\ d # density
    /\ density' = d
    /\ cache' = [ k \in { k \in DOMAIN cache : k[4] = d } |-> cache[k] ]
    /\ Note("env", FALSE, << >>)
    /\ Env
    /\ UNCHANGED << book, effectPending, chaptersRef, chapterIdx, paragraphs,
                    fetchStatus, stream, streamBook, firstShown, concurrent, queue,
                    inFlight, ops, gen >>

\* Reader renders with another (debounced) density: densityRef.current = density
SetDensity(d) ==
    /\ d # density
    /\ density' = d
    /\ Note("env", FALSE, << >>)
    /\ Env
    /\ UNCHANGED << book, effectPending, chaptersRef, chapterIdx, paragraphs,
                    fetchStatus, stream, streamBook, firstShown, concurrent, queue,
                    inFlight, ops, cache, gen >>

\* Faulty variant of catchStream: the status at the time is not looked at
catchStreamAlwaysError(name, prev) == IF name = "AbortError" THEN prev ELSE "error"

\* Faulty variant of catchStream: an AbortError is handled like any error
catchStreamAnyError(name, prev) == IF prev = "loading" THEN "error" ELSE prev

\* The handler of a rejected streamBookChapters: the fetch status that
\* results from an error of the given name when the status is prev
catchStream(name, prev) ==
    IF name = "AbortError" THEN prev
    ELSE IF prev = "loading" THEN "error" ELSE prev

\* The stream effect: abort the previous stream, clear the chunks and the
\* paragraphs, reset the engine, start streaming the book.
StreamEffect ==
    /\ effectPending
    /\ effectPending' = FALSE
    /\ chaptersRef' = << >>
    /\ chapterIdx' = 0
    /\ Commit(reset([ Engine EXCEPT !.paragraphs = << >> ]))
    /\ fetchStatus' = IF stream = "open" THEN catchStream("AbortError", "loading")
                      ELSE "loading"
    /\ stream' = "open"
    /\ streamBook' = book
    /\ firstShown' = FALSE
    /\ gen' = gen + 1
    /\ Note(IF stream = "open" THEN "abort" ELSE "effect", FALSE, << >>)
    /\ Env
    /\ UNCHANGED << book, density, cache >>

\* Faulty variant of OnChapter: every chunk is shown when it arrives
OnChapterShowsEach ==
    /\ stream = "open"
    /\ Len(chaptersRef) < ChunksIn(streamBook)
    /\ LET chapter == ChunkOf(streamBook, Len(chaptersRef))
       IN  /\ chaptersRef' = Append(chaptersRef, chapter)
           /\ firstShown' = TRUE
           /\ paragraphs' = Fresh(chapter)
           /\ fetchStatus' = "done"
    /\ stream' = IF Len(chaptersRef) + 1 = ChunksIn(streamBook) THEN "ended" ELSE "open"
    /\ Note("env", FALSE, << >>)
    /\ Env
    /\ UNCHANGED << book, density, effectPending, chapterIdx, streamBook,
                    concurrent, queue, inFlight, ops, cache, gen >>

\* The stream's onChapter callback.  The last chunk of a document is emitted
\* by the flush that ends streamBookChapters.
OnChapter ==
    /\ stream = "open"
    /\ Len(chaptersRef) < ChunksIn(streamBook)
    /\ LET chapter == ChunkOf(streamBook, Len(chaptersRef))
       IN  /\ chaptersRef' = Append(chaptersRef, chapter)
           /\ IF ~firstShown
              THEN /\ firstShown' = TRUE
                   /\ paragraphs' = Fresh(chapter)
                   /\ fetchStatus' = "done"
              ELSE UNCHANGED << firstShown, paragraphs, fetchStatus >>
    /\ stream' = IF Len(chaptersRef) + 1 = ChunksIn(streamBook) THEN "ended" ELSE "open"
    /\ Note("env", FALSE, << >>)
    /\ Env
    /\ UNCHANGED << book, density, effectPending, chapterIdx, streamBook,
                    concurrent, queue, inFlight, ops, cache, gen >>

\* streamBookChapters rejects with an error that is not an AbortError
StreamFails ==
    /\ stream = "open"
    /\ stream' = "failed"
    /\ fetchStatus' = catchStream("Error", fetchStatus)
    /\ Note("env", FALSE, << >>)
    /\ Env
    /\ UNCHANGED << book, density, effectPending, chaptersRef, chapterIdx,
                    paragraphs, streamBook, firstShown, concurrent, queue, inFlight,
                    ops, cache, gen >>

\* Faulty variant of Navigate: the engine is reset for any index
NavigateAlwaysResets(idx) ==
    /\ apiKey
    /\ Commit(reset([ Engine EXCEPT !.paragraphs =
                        IF idx >= 0 /\ idx < Len(chaptersRef)
                        THEN Fresh(chaptersRef[idx + 1]) ELSE @ ]))
    /\ chapterIdx' = IF idx >= 0 /\ idx < Len(chaptersRef) THEN idx ELSE chapterIdx
    /\ gen' = gen + 1
    /\ Note(IF idx >= 0 /\ idx < Len(chaptersRef) THEN "navigate" ELSE "ignored",
            FALSE, << >>)
    /\ Env
    /\ UNCHANGED << book, density, effectPending, chaptersRef, fetchStatus,
                    stream, streamBook, firstShown, cache >>

\* navigateToChapter(idx), called by Reader's chapter buttons, which exist
\* only when an API key is set
Navigate(idx) ==
    /\ apiKey
    /\ IF idx >= 0 /\ idx < Len(chaptersRef)
       THEN /\ Commit(reset([ Engine EXCEPT !.paragraphs = Fresh(chaptersRef[idx + 1]) ]))
            /\ chapterIdx' = idx
            /\ gen' = gen + 1
       ELSE UNCHANGED << paragraphs, queue, inFlight, concurrent, ops, chapterIdx, gen >>
    /\ Note(IF idx >= 0 /\ idx < Len(chaptersRef) THEN "navigate" ELSE "ignored",
            FALSE, << >>)
    /\ Env
    /\ UNCHANGED << book, density, effectPending, chaptersRef, fetchStatus,
                    stream, streamBook, firstShown, cache >>

\* enqueue(idx), called by Reader's IntersectionObserver, which exists only
\* when an API key is set
Enqueue(idx) ==
    /\ apiKey
    /\ \E e \in { enqueue(Engine, idx, cache) } :
           /\ Commit(e)
           /\ Note(IF Accepts(Engine, idx) THEN "enqueue" ELSE "rejected",
                   FALSE, e.started)
    /\ Env
    /\ UNCHANGED << book, density, effectPending, chaptersRef, chapterIdx,
                    fetchStatus, stream, streamBook, firstShown, cache, gen >>

\* processChunk's first attempt fails (callDeepSeek throws or the response
\* does not validate): the 2 s timer is started
AttemptFails(o) ==
    /\ o.phase = "attempt1"
    /\ \E answer \in ClientAnswers(CallText(o.raw), o.density) : ~AttemptOk(answer)
    /\ ops' = (ops \ {o}) \cup { AfterFirstFailure(o) }
    /\ Note("failed", o.gen # gen, << >>)
    /\ Env
    /\ UNCHANGED << book, density, effectPending, chaptersRef, chapterIdx,
                    paragraphs, fetchStatus, stream, streamBook, firstShown,
                    concurrent, queue, inFlight, cache, gen >>

\* The timer fires: the second attempt calls the service
Retry(o) ==
    /\ o.phase = "backoff"
    /\ ops' = (ops \ {o}) \cup { AfterTimer(o) }
    /\ Note("retry", o.gen # gen, << >>)
    /\ Env
    /\ UNCHANGED << book, density, effectPending, chaptersRef, chapterIdx,
                    paragraphs, fetchStatus, stream, streamBook, firstShown,
                    concurrent, queue, inFlight, cache, gen >>

\* processChunk resolves with segments and process(idx) runs to its end:
\* writeCache, recordWords, patchParagraph, and done() in finally.
\* recordWords throws when localStorage.setItem does, and the catch block
\* sets the paragraph to error.
Resume(o, segments, kind) ==
    LET c1 == writeCache(cache, o.book, o.chIdx, o.idx, o.density, segments, ~sessionFull)
        e1 == [ Engine EXCEPT !.ops = @ \ {o} ]
        e2 == [ e1 EXCEPT !.paragraphs =
                  IF ~localFull
                  THEN patchParagraph(@, o.idx, [ segments |-> segments, status |-> "done" ])
                  ELSE patchParagraph(@, o.idx, [ status |-> "error" ]) ]
    IN  \E e3 \in { done(e2, o.idx, c1) } :
            /\ cache' = c1
            /\ Commit(e3)
            /\ NoteSink(kind, o.gen # gen, e3.started, o.idx, segments)
            /\ Env
            /\ UNCHANGED << book, density, effectPending, chaptersRef, chapterIdx,
                            fetchStatus, stream, streamBook, firstShown, gen >>

\* An attempt succeeds
AttemptSucceeds(o) ==
    /\ o.phase \in {"attempt1", "attempt2"}
    /\ \E answer \in ClientAnswers(CallText(o.raw), o.density) :
          /\ AttemptOk(answer)
          /\ Resume(o, AsSegments(answer), "resume")

\* The second attempt fails too: processChunk returns the fallback
RetryFails(o) ==
    /\ o.phase = "attempt2"
    /\ \E answer \in ClientAnswers(CallText(o.raw), o.density) : ~AttemptOk(answer)
    /\ Resume(o, Fallback(o.raw), "fallback")

NavRange == -1 .. 2
IdxRange == 0 .. MaxParas

\* A disturbance is spent, or none is
Spend == disturbed < MaxDisturbed /\ disturbed' = disturbed + 1
Free == UNCHANGED disturbed

\* The hook on books 1 and 2 under every operation, with at most
\* MaxDisturbed disturbances (the first book's load is none)
Next ==
    \/ \E b \in {1, 2} : SetBook(b) /\ (IF book = 0 THEN Free ELSE Spend)
    \/ \E d \in Densities : SetDensity(d) /\ Spend
    \/ StreamEffect /\ Free
    \/ OnChapter /\ Free
    \/ StreamFails /\ Spend
    \/ \E idx \in NavRange :
          Navigate(idx) /\ (IF idx >= 0 /\ idx < Len(chaptersRef) THEN Spend ELSE Free)
    \/ \E idx \in IdxRange : Enqueue(idx) /\ Free
    \/ \E o \in ops : AttemptFails(o) /\ Spend
    \/ \E o \in ops : Retry(o) /\ Free
    \/ \E o \in ops : AttemptSucceeds(o) /\ Free
    \/ \E o \in ops : RetryFails(o) /\ Free

Spec == Init /\ [][Next]_vars

\* The hook on the long book within one chunk generation: the book is
\* loaded once, its chunk is shown, and paragraphs are enqueued and
\* processed, the enrichment client failing at will
NextLong ==
    \/ book = 0 /\ SetBook(LongBook) /\ Free
    \/ StreamEffect /\ Free
    \/ OnChapter /\ Free
    \/ \E idx \in IdxRange : Enqueue(idx) /\ Free
    \/ \E o \in ops : AttemptFails(o) /\ Free
    \/ \E o \in ops : Retry(o) /\ Free
    \/ \E o \in ops : AttemptSucceeds(o) /\ Free
    \/ \E o \in ops : RetryFails(o) /\ Free

\* The long book is read with a session store that accepts writes
InitLong == Init /\ ~sessionFull

SpecLong == InitLong /\ [][NextLong]_vars

\* The one disturbance of a run that has had none
Once == disturbed = 0 /\ disturbed' = disturbed + 1

\* The same with a client that fails one first attempt at most
NextCalm ==
    \/ book = 0 /\ SetBook(LongBook) /\ Free
    \/ StreamEffect /\ Free
    \/ OnChapter /\ Free
    \/ \E idx \in IdxRange : Enqueue(idx) /\ Free
    \/ \E o \in ops : AttemptFails(o) /\ Once
    \/ \E o \in ops : Retry(o) /\ Free
    \/ \E o \in ops : AttemptSucceeds(o) /\ Free
    \/ \E o \in ops : RetryFails(o) /\ Free

\* An outstanding call moves on: the attempt comes back, or the backoff
\* timer fires
Returns ==
    \E o \in ops :
        /\ AttemptSucceeds(o) \/ Retry(o) \/ RetryFails(o)
        /\ Free

\* The long book, never reset, when every enrichment call eventually
\* returns and every timer eventually fires
\* The long book is read with an API key and a session store that holds
\* an entry already
InitFair == InitLong /\ apiKey /\ cache = WarmCache

SpecFair == InitFair /\ [][NextCalm]_vars /\ WF_vars(Returns)

(***************************************************************************)
(* processChunk on its own: one invocation on a text of any length, with a *)
(* service that, when it answers with segments, cuts the text it was asked *)
(* to transform into two segments without changing a character, and that   *)
(* can also fail in every way attempt() distinguishes.                     *)
(***************************************************************************)
Letters == << "a", "b", "c", " ", "d" >>

\* The paragraph text of n characters
TextOf(n) == [ i \in 1..n |-> Letters[((i - 1) % Len(Letters)) + 1] ]

PcTexts ==
    { TextOf(n) : n \in (1..MaxTextLen)
                        \cup ((MAX_PARA_CHARS - 1)..(MAX_PARA_CHARS + MaxOver)) }

\* The text cut after k characters, the second part marked Polish
Verbatim(text, k) ==
    << Elem(SubSeq(text, 1, k), "en", << >>),
       Elem(SubSeq(text, k + 1, Len(text)), "pl", << "w" >>) >>

Cuts(text) == { 0, 1, Len(text) \div 2, Len(text) }

\* What one call of callDeepSeek can come back with: the text in two
\* segments, an empty list, a thrown error, an element with another
\* language, an element whose text is not a string
PcAnswers(text) ==
    { Verbatim(text, k) : k \in Cuts(text) }
        \cup { << >>, TransportError,
               << Elem(text, "de", << >>) >>,
               << [ hasText |-> FALSE, text |-> << >>, lang |-> "en", baseEn |-> << >> ] >> }

HookAtRest ==
    /\ HookInit
    /\ ~apiKey /\ ~sessionFull /\ ~localFull
    /\ cache = EmptyCache

PcInit ==
    /\ HookAtRest
    /\ ParserAtRest
    /\ session = SessionNone
    /\ \E t \in PcTexts, d \in Densities :
          pc = processChunk(t, d)
                 @@ [ asked |-> << CallText(t) >>, result |-> Null, fellBack |-> FALSE ]

\* The first attempt fails
PcAttemptFails ==
    /\ pc.phase = "attempt1"
    /\ \E answer \in PcAnswers(CallText(pc.raw)) : ~AttemptOk(answer)
    /\ pc' = AfterFirstFailure(pc)
    /\ UNCHANGED << hookVars, session, parserVars >>

\* The 2 s timer fires and the second attempt calls the service
PcRetry ==
    /\ pc.phase = "backoff"
    /\ pc' = [ AfterTimer(pc) EXCEPT !.asked = Append(@, CallText(pc.raw)) ]
    /\ UNCHANGED << hookVars, session, parserVars >>

\* An attempt succeeds: processChunk returns response.segments
PcAttemptSucceeds ==
    /\ pc.phase \in {"attempt1", "attempt2"}
    /\ \E answer \in PcAnswers(CallText(pc.raw)) :
          /\ AttemptOk(answer)
          /\ pc' = [ pc EXCEPT !.phase = "returned", !.result = AsSegments(answer) ]
    /\ UNCHANGED << hookVars, session, parserVars >>

\* The second attempt fails: processChunk returns fallback
PcRetryFails ==
    /\ pc.phase = "attempt2"
    /\ \E answer \in PcAnswers(CallText(pc.raw)) : ~AttemptOk(answer)
    /\ pc' = [ pc EXCEPT !.phase = "returned", !.result = Fallback(pc.raw),
                         !.fellBack = TRUE ]
    /\ UNCHANGED << hookVars, session, parserVars >>

PcNext ==
    \/ PcAttemptFails
    \/ PcRetry
    \/ PcAttemptSucceeds
    \/ PcRetryFails

PcSpec == PcInit /\ [][PcNext]_vars

(***************************************************************************)
(* streamBookChapters on its own.  A document is a sequence of lines; its  *)
(* last line may lack the final newline.  A read delivers one or two       *)
(* lines, or the first characters of a line.                               *)
(***************************************************************************)
TitleLine == << "A", " ", "t", "i", "t", "l", "e", " ", "l", "i", "n", "e", " ", "b", "e", "f", "o", "r", "e", " ", "t", "h", "e", " ", "m", "a", "r", "k", "e", "r" >>
StartLine == << "*", "*", "*", " ", "S", "T", "A", "R", "T", " ", "O", "F", " ", "T", "H", "E", " ", "P", "R", "O", "J", "E", "C", "T", " ", "G", "U", "T", "E", "N", "B", "E", "R", "G", " ", "E", "B", "O", "O", "K", " ", "X", " ", "*", "*", "*" >>
EndLine == << "*", "*", "*", " ", "E", "N", "D", " ", "O", "F", " ", "T", "H", "E", " ", "P", "R", "O", "J", "E", "C", "T", " ", "G", "U", "T", "E", "N", "B", "E", "R", "G", " ", "E", "B", "O", "O", "K", " ", "X", " ", "*", "*", "*" >>
LicenseLine == << "L", "i", "c", "e", "n", "s", "e", " ", "t", "e", "x", "t", " ", "a", "f", "t", "e", "r", " ", "t", "h", "e", " ", "e", "n", "d", " ", "m", "a", "r", "k", "e", "r", "." >>

\* The lines of the k-th paragraph of a plain document, after a blank
\* line: every seventh paragraph is spread over two lines with runs of
\* spaces, and every fifth follows a page number
ParaBlock(k) ==
    (IF k % 5 = 4 THEN << << >>, Decimal(k) >> ELSE << >>)
    \o << << >> >>
    \o (IF k % 7 = 3
        THEN << << "T", "h", "e", " ", "p", "a", "r", "a", "g", "r", "a", "p", "h", " ", " " >>,
                << " ", " ", " ", "n", "u", "m", "b", "e", "r", " " >> \o Decimal(k) \o << " ", " ", "i", "s", " ", " ", " ", "l", "o", "n", "g", "." >> >>
        ELSE << << "T", "h", "e", " ", "p", "a", "r", "a", "g", "r", "a", "p", "h", " " >> \o Decimal(k) \o << "." >> >>)

\* The blocks of paragraphs a..b
RECURSIVE ParaBlocksOf(_, _)
ParaBlocksOf(a, b) ==
    IF a > b THEN << >>
    ELSE IF a = b THEN ParaBlock(a)
    ELSE ParaBlocksOf(a, (a + b) \div 2) \o ParaBlocksOf(((a + b) \div 2) + 1, b)

ParaBlocks(n) == ParaBlocksOf(1, n)

\* The formats of a book that is served as UTF-8 plain text
Utf8 == { "text/plain; charset=utf-8", "text/html" }

\* A document without heading lines that holds n valid paragraphs
PlainDoc(n, withEnd, terminated) ==
    [ kind |-> "plain", n |-> n, terminated |-> terminated,
      formats |-> Utf8, res |-> "ok",
      lines |-> << TitleLine, StartLine >> \o ParaBlocks(n)
                  \o (IF withEnd THEN << << >>, EndLine, LicenseLine >> ELSE << >>) ]

PlainSizes ==
    (0..MaxShortDoc)
        \cup { k * STREAM_CHUNK_SIZE + r : k \in 1..MaxFullChunks, r \in {-1, 0, 1} }

PlainDocs ==
    { PlainDoc(n, e, t) : n \in PlainSizes, e \in BOOLEAN, t \in BOOLEAN }

\* Chapter followed by x's up to n characters
LongLine(n) == << "C", "h", "a", "p", "t", "e", "r", " " >> \o [ i \in 1..(n - 8) |-> "x" ]

\* Lines that are or are not headings
Candidates ==
    { << "C", "H", "A", "P", "T", "E", "R", " ", "I", "V", "." >>,
      << "c", "h", "a", "p", "t", "e", "r", " ", "o", "f", " ", "m", "y", " ", "l", "i", "f", "e", "," >>,
      << "P", "a", "r", "t", "i", "c", "u", "l", "a", "r", " ", "c", "a", "r", "e", " ", "w", "a", "s", " ", "t", "a", "k", "e", "n" >>,
      << "P", "a", "r", "t" >>,
      << "a", "c", "t", "s" >>,
      << "P", "R", "O", "L", "O", "G", "U", "E" >>,
      << "B", "o", "o", "k", " ", "2", ":", " ", "t", "h", "e", " ", "r", "e", "t", "u", "r", "n" >>,
      << "C", "h", "a", "p", "t", "e", "r", "_", "o", "n", "e", " ", "h", "a", "s", " ", "n", "o", " ", "b", "o", "u", "n", "d", "a", "r", "y" >>,
      << "C", "h", "a", "p", "t", "e", "r", "-", "o", "n", "e", " ", "a", "n", "d", " ", "m", "o", "r", "e" >>,
      << "T", "h", "e", " ", "c", "h", "a", "p", "t", "e", "r", " ", "b", "e", "g", "i", "n", "s", " ", "h", "e", "r", "e" >>,
      << "S", "e", "c", "t", "i", "o", "n", "," >>,
      << "S", "c", "e", "n", "e", " ", "3" >>,
      << " ", " " >> \o << "E", "p", "i", "l", "o", "g", "u", "e", " ", "1" >> \o << " ", "\r" >>,
      LongLine(HEADING_MAX_CHARS - 1), LongLine(HEADING_MAX_CHARS) }

\* A document with the line x between two paragraphs, set off by blank
\* lines or not
HeadingDoc(x, tight) ==
    [ kind |-> "heading", n |-> 0, terminated |-> TRUE,
      formats |-> Utf8, res |-> "ok",
      lines |-> << StartLine, << >>, << "T", "h", "e", " ", "p", "a", "r", "a", "g", "r", "a", "p", "h", " ", "1", "." >> >>
                  \o (IF tight THEN << >> ELSE << << >> >>)
                  \o << x >>
                  \o (IF tight THEN << >> ELSE << << >> >>)
                  \o << << "T", "h", "e", " ", "p", "a", "r", "a", "g", "r", "a", "p", "h", " ", "2", "." >>, << >> >> ]

HeadingDocs == { HeadingDoc(x, t) : x \in Candidates, t \in BOOLEAN }

\* The k-th heading line of a document with chapters
HeadingLine(k) == << "C", "h", "a", "p", "t", "e", "r", " " >> \o Decimal(k)

\* The lines of a document given as a sequence of headings ("H") and
\* paragraphs ("P"); h headings and k paragraphs precede them.  A heading
\* follows the line before it without a blank line.
RECURSIVE ItemLines(_, _, _)
ItemLines(items, h, k) ==
    IF items = << >> THEN << >>
    ELSE IF Head(items) = "H"
    THEN << HeadingLine(h + 1) >> \o ItemLines(Tail(items), h + 1, k)
    ELSE ParaBlock(k + 1) \o ItemLines(Tail(items), h, k + 1)

\* n paragraphs in a row
Paras(n) == [ i \in 1..n |-> "P" ]

\* A document with chapters
ChapterDoc(items) ==
    [ kind |-> "chapters", n |-> Cardinality({ i \in DOMAIN items : items[i] = "P" }),
      terminated |-> TRUE, formats |-> Utf8, res |-> "ok", items |-> items,
      lines |-> << StartLine >> \o ItemLines(items, 0, 0) \o << << >> >> ]

\* Headings before, between and after paragraphs, two headings in a row,
\* and chapters of more than STREAM_CHUNK_SIZE paragraphs
ChapterPatterns ==
    { << "H", "P", "H", "P" >>,
      << "H", "H", "P" >>,
      << "P", "H", "H", "P", "P" >>,
      << "P", "P", "H" >>,
      << "H" >> \o Paras(STREAM_CHUNK_SIZE + 1) \o << "H", "P" >>,
      Paras(STREAM_CHUNK_SIZE) \o << "H", "P" >> }

ChapterDocs == { ChapterDoc(items) : items \in ChapterPatterns }

\* A document of n paragraphs that has no start marker
NoStartDoc(n, terminated) ==
    [ kind |-> "nostart", n |-> n, terminated |-> terminated,
      formats |-> Utf8, res |-> "ok",
      lines |-> << TitleLine >> \o ParaBlocks(n) \o << << >>, EndLine, LicenseLine >> ]

NoStartDocs == { NoStartDoc(n, t) : n \in 1..2, t \in BOOLEAN }

\* The formats a book record can list
FormatSets ==
    { {}, { "text/html" }, { "text/plain" }, { "text/plain; charset=us-ascii", "text/html" },
      Utf8 }

\* What fetch comes back with: a response that is ok and has a body, a
\* response with an error status, a response without body, a rejection
Responses == { "ok", "status", "nobody", "network" }

\* One document under every combination of formats and response
SourceDocs ==
    { [ PlainDoc(1, FALSE, TRUE) EXCEPT !.formats = f, !.res = r ] :
         f \in FormatSets, r \in Responses }

\* Faulty variant of getPlainTextUrl: any format will do
getPlainTextUrlAnyFormat(formats) ==
    IF formats = {} THEN "null" ELSE CHOOSE f \in formats : TRUE

\* getPlainTextUrl(book): the format whose URL is returned, or null
getPlainTextUrl(formats) ==
    IF "text/plain; charset=utf-8" \in formats THEN "text/plain; charset=utf-8"
    ELSE IF "text/plain; charset=us-ascii" \in formats THEN "text/plain; charset=us-ascii"
    ELSE IF "text/plain" \in formats THEN "text/plain"
    ELSE "null"

\* emitChunk(title, paragraphs)
emitChunk(p, title, paras) ==
    IF Len(paras) = 0 THEN p
    ELSE [ p EXCEPT !.emitted = Append(@, [ title |-> title, paragraphs |-> paras,
                                            index |-> p.chapterIndex ]),
                    !.chapterIndex = @ + 1 ]

\* currentTitle || `Part ${chapterIndex + 1}`
TitleOr(p) ==
    IF p.currentTitle # << >> THEN p.currentTitle ELSE PartTitle(p.chapterIndex + 1)

\* Faulty variant of flushParagraph: no early emission
flushParagraphUnbounded(p) ==
    LET t == trim(collapseSpaces(p.pendingLine))
        p0 == [ p EXCEPT !.pendingLine = << >> ]
    IN  IF Len(t) <= MIN_PARA_CHARS THEN p0
        ELSE [ p0 EXCEPT !.currentParagraphs = Append(@, t) ]

\* flushParagraph()
flushParagraph(p) ==
    LET t == trim(collapseSpaces(p.pendingLine))
        p0 == [ p EXCEPT !.pendingLine = << >> ]
    IN  IF Len(t) <= MIN_PARA_CHARS THEN p0
        ELSE LET p1 == [ p0 EXCEPT !.currentParagraphs = Append(@, t) ]
             IN  IF Len(p1.currentParagraphs) >= STREAM_CHUNK_SIZE
                 THEN [ emitChunk(p1, TitleOr(p1), p1.currentParagraphs)
                          EXCEPT !.currentParagraphs = << >>, !.currentTitle = << >> ]
                 ELSE p1

\* Faulty variant of flushChapterBoundary: the new title is set first
flushChapterBoundaryTitleFirst(p, newTitle) ==
    LET p1 == [ flushParagraph(p) EXCEPT !.currentTitle = newTitle ]
    IN  IF Len(p1.currentParagraphs) > 0
        THEN [ emitChunk(p1, TitleOr(p1), p1.currentParagraphs)
                 EXCEPT !.currentParagraphs = << >> ]
        ELSE p1

\* flushChapterBoundary(newTitle)
flushChapterBoundary(p, newTitle) ==
    LET p1 == flushParagraph(p)
        p2 == IF Len(p1.currentParagraphs) > 0
              THEN [ emitChunk(p1, TitleOr(p1), p1.currentParagraphs)
                       EXCEPT !.currentParagraphs = << >> ]
              ELSE p1
    IN  [ p2 EXCEPT !.currentTitle = newTitle ]

\* Faulty variant of isHeading: a trailing comma is not looked at
isHeadingWithComma(trimmed) ==
    /\ CHAPTER_RE(trimmed)
    /\ Len(trimmed) < HEADING_MAX_CHARS

\* The heading test of the read loop
isHeading(trimmed) ==
    /\ CHAPTER_RE(trimmed)
    /\ Len(trimmed) < HEADING_MAX_CHARS
    /\ trimmed[Len(trimmed)] # ","

\* The line is noted with what the loop did with it
Seen(p, trimmed, boundary) ==
    [ p EXCEPT !.lines = Append(@, [ text |-> trimmed, boundary |-> boundary ]) ]

\* The body of the loop over complete.split('\n') for one raw line
processLine(p, raw) ==
    LET line == trimEnd(raw)
        trimmed == trim(line)
    IN  IF ~p.inBook
        THEN (IF MarkerRe(line, START_OF) THEN [ p EXCEPT !.inBook = TRUE ] ELSE p)
        ELSE IF MarkerRe(line, END_OF)
        THEN LET p1 == flushParagraph(p)
             IN  [ emitChunk(p1, TitleOr(p1), p1.currentParagraphs)
                     EXCEPT !.phase = "returned" ]
        ELSE IF trimmed = << >> THEN flushParagraph(p)
        ELSE IF isHeading(trimmed)
        THEN Seen(flushChapterBoundary(p, trimmed), trimmed, TRUE)
        ELSE Seen([ p EXCEPT !.pendingLine =
                        @ \o (IF @ # << >> THEN << " " >> ELSE << >>) \o trimmed ],
                  trimmed, FALSE)

\* The loop over complete.split('\n'), left by the return at the end marker
RECURSIVE processLines(_, _)
processLines(p, raws) ==
    IF raws = << >> \/ p.phase = "returned" THEN p
    ELSE processLines(processLine(p, Head(raws)), Tail(raws))

\* split('\n')
RECURSIVE split(_)
split(t) ==
    IF \A i \in 1..Len(t) : t[i] # "\n" THEN << t >>
    ELSE LET i == CHOOSE i \in 1..Len(t) :
                     t[i] = "\n" /\ \A j \in 1..(i - 1) : t[j] # "\n"
         IN  << SubSeq(t, 1, i - 1) >> \o split(SubSeq(t, i + 1, Len(t)))

\* The lines whose newline the document holds
Complete == IF doc.terminated THEN Len(doc.lines) ELSE Len(doc.lines) - 1

\* The end of the document
DocEnd ==
    [ lines |-> Complete,
      off |-> IF doc.terminated THEN 0 ELSE Len(doc.lines[Len(doc.lines)]) ]

\* The text between two positions of the document
RECURSIVE TextBetween(_, _)
TextBetween(from, to) ==
    IF from.lines = to.lines
    THEN SubSeq(doc.lines[from.lines + 1], from.off + 1, to.off)
    ELSE SubSeq(doc.lines[from.lines + 1], from.off + 1, Len(doc.lines[from.lines + 1]))
            \o << "\n" >>
            \o (IF to = [ lines |-> from.lines + 1, off |-> 0 ] THEN << >>
                ELSE TextBetween([ lines |-> from.lines + 1, off |-> 0 ], to))

\* Where the next read can end
ReadTargets ==
    { [ lines |-> fed.lines + k, off |-> 0 ] : k \in { k \in 1..2 : fed.lines + k <= Complete } }
      \cup { [ lines |-> fed.lines, off |-> ReadChars ] :
                x \in { x \in {1} : /\ fed.off = 0
                                    /\ fed.lines < Len(doc.lines)
                                    /\ Len(doc.lines[fed.lines + 1]) >= ReadChars } }
      \cup { DocEnd : x \in { x \in {1} : fed.lines = Complete /\ fed # DocEnd } }

ParserStart ==
    [ phase |-> "start", buffer |-> << >>, inBook |-> FALSE, chapterIndex |-> 0,
      currentTitle |-> << >>, currentParagraphs |-> << >>, pendingLine |-> << >>,
      emitted |-> << >>, lines |-> << >> ]

ParserInit ==
    /\ HookAtRest
    /\ pc = PcNone
    /\ session = SessionNone
    /\ doc \in PlainDocs \cup HeadingDocs \cup NoStartDocs \cup SourceDocs \cup ChapterDocs
    /\ fed = [ lines |-> 0, off |-> 0 ]
    /\ parser = ParserStart

\* streamBookChapters up to its read loop: it throws when the book has no
\* plain-text format, when fetch rejects, and when the response is not ok
\* or has no body
Open ==
    /\ parser.phase = "start"
    /\ parser' = [ parser EXCEPT !.phase =
                     IF getPlainTextUrl(doc.formats) = "null" THEN "rejected"
                     ELSE IF doc.res = "network" THEN "rejected"
                     ELSE IF doc.res \in {"status", "nobody"} THEN "rejected"
                     ELSE "reading" ]
    /\ UNCHANGED << hookVars, pc, session, doc, fed >>

\* Faulty variant of decodeInto: the text left in the buffer is lost
decodeFresh(buffer, value) == value

\* buffer += decoder.decode(value, { stream: true })
decodeInto(buffer, value) == buffer \o value

\* reader.read() resolves with text, and the loop body runs on it
Read(to) ==
    /\ parser.phase = "reading"
    /\ LET all == decodeInto(parser.buffer, TextBetween(fed, to))
           parts == split(all)
           p0 == [ parser EXCEPT !.lines = << >> ]
       IN  parser' = IF Len(parts) = 1
                     THEN [ p0 EXCEPT !.buffer = all ]
                     ELSE processLines([ p0 EXCEPT !.buffer = parts[Len(parts)] ],
                                       SubSeq(parts, 1, Len(parts) - 1))
    /\ fed' = to
    /\ UNCHANGED << hookVars, pc, session, doc >>

\* reader.read() resolves with done: the remainder is flushed and the
\* function returns
EndOfStream ==
    /\ parser.phase = "reading"
    /\ fed = DocEnd
    /\ LET p1 == flushParagraph([ parser EXCEPT !.lines = << >> ])
       IN  parser' = [ emitChunk(p1, TitleOr(p1), p1.currentParagraphs)
                         EXCEPT !.phase = "returned" ]
    /\ UNCHANGED << hookVars, pc, session, doc, fed >>

\* streamBookChapters on the whole text of the document delivered by a
\* single read
OneRead ==
    LET parts == split(decodeInto(<< >>, TextBetween([ lines |-> 0, off |-> 0 ], DocEnd)))
        p == processLines([ ParserStart EXCEPT !.phase = "reading",
                                                !.buffer = parts[Len(parts)] ],
                          SubSeq(parts, 1, Len(parts) - 1))
    IN  IF p.phase = "returned" THEN p
        ELSE LET p1 == flushParagraph(p)
             IN  [ emitChunk(p1, TitleOr(p1), p1.currentParagraphs)
                     EXCEPT !.phase = "returned" ]

ParserNext ==
    \/ Open
    \/ \E to \in ReadTargets : Read(to)
    \/ EndOfStream

ParserSpec == ParserInit /\ [][ParserNext]_vars

(***************************************************************************)
(* writeCache and pruneCache on their own.  The specifications of the hook *)
(* keep sessionStorage far below the threshold of pruneCache, where it     *)
(* returns at once; here the store is at the threshold, with the keys of   *)
(* other code of the origin next to the hook's.                            *)
(***************************************************************************)
MaxExcess == 1   \* the store starts with up to PRUNE_THRESHOLD + MaxExcess items
MaxWrites == 2   \* writeCache calls in a behaviour

\* pruneCache: the length above which it evicts, and how many items
PRUNE_THRESHOLD == 200
PRUNE_COUNT == 50

\* A key of the store; own is key.startsWith('lexis_chunk_')
OwnKey(i) == [ own |-> TRUE, id |-> cacheKey(i, 0, 0, 20) ]
ForeignKey(j) == [ own |-> FALSE, id |-> << j, 0, 0, 0 >> ]

\* The item writeCache stores: JSON of { segments, processedAt }
Written(t) == [ parses |-> TRUE, stamped |-> TRUE, processedAt |-> t ]
\* JSON of an object without processedAt
Unstamped == [ parses |-> TRUE, stamped |-> FALSE, processedAt |-> 0 ]
\* An item JSON.parse throws on
Garbage == [ parses |-> FALSE, stamped |-> FALSE, processedAt |-> 0 ]

\* ts of a key in pruneCache: JSON.parse(item).processedAt ?? 0, and 0
\* when that throws
ts(item) ==
    IF ~item.parses THEN 0
    ELSE IF item.stamped THEN item.processedAt ELSE 0

\* keys.sort((a, b) => a.ts - b.ts): ascending in ts, and stable
sort(keys) ==
    CHOOSE sorted \in
        { [ p \in 1..Len(keys) |-> keys[CHOOSE i \in 1..Len(keys) : rank[i] = p] ] :
            rank \in { [ i \in 1..Len(keys) |->
                          1 + Cardinality({ j \in 1..Len(keys) :
                                  \/ keys[j].ts < keys[i].ts
                                  \/ keys[j].ts = keys[i].ts /\ j < i }) ] } } : TRUE

\* Array.prototype.slice(from, to)
slice(s, from, to) == SubSeq(s, from + 1, IF to < Len(s) THEN to ELSE Len(s))

\* Faulty variant of pruneCache: the newest items are evicted
pruneCacheNewest(items) ==
    IF Len(items) <= 200 THEN items
    ELSE CHOOSE left \in
           { SelectSeq(items, LAMBDA e : e.key \notin gone) :
               gone \in { { items[i].key : i \in
                             { i \in 1..Len(items) :
                                 /\ items[i].key.own
                                 /\ Cardinality({ j \in 1..Len(items) :
                                        /\ items[j].key.own
                                        /\ \/ items[j].item.processedAt > items[i].item.processedAt
                                           \/ /\ items[j].item.processedAt = items[i].item.processedAt
                                              /\ j < i }) < 50 } } } } : TRUE

\* pruneCache: the items left in the store
pruneCache(items) ==
    IF Len(items) <= PRUNE_THRESHOLD THEN items
    ELSE LET own == SelectSeq(items, LAMBDA e : e.key.own)
             keys == [ i \in 1..Len(own) |->
                         [ key |-> own[i].key, ts |-> ts(own[i].item) ] ]
         IN  CHOOSE left \in
               { SelectSeq(items, LAMBDA e : e.key \notin gone) :
                   gone \in { { k.key : k \in Range(slice(sort(keys), 0, PRUNE_COUNT)) } } } : TRUE

\* sessionStorage.setItem(key, item): the item of an existing key is
\* replaced where it is, a new key comes last
setItem(items, key, item) ==
    IF \E i \in 1..Len(items) : items[i].key = key
    THEN [ i \in 1..Len(items) |->
             IF items[i].key = key THEN [ key |-> key, item |-> item ] ELSE items[i] ]
    ELSE Append(items, [ key |-> key, item |-> item ])

\* writeCache on the whole store: pruneCache, then setItem, which may throw
writeCacheStore(items, key, now, stored) ==
    IF stored THEN setItem(pruneCache(items), key, Written(now))
    ELSE pruneCache(items)

\* The stamps the hook's items carry at the start
Patterns == { "ascending", "descending", "ties", "mixed" }
ItemOf(pattern, i, n) ==
    CASE pattern = "ascending"  -> Written(i)
      [] pattern = "descending" -> Written(n + 1 - i)
      [] pattern = "ties"       -> Written(1 + (i % 3))
      [] pattern = "mixed"      -> IF i % 7 = 0 THEN Garbage
                                   ELSE IF i % 5 = 0 THEN Unstamped
                                   ELSE Written(1 + ((i * 37) % 101))

\* The key order of the store is the browser's
Layouts == { "ownFirst", "foreignFirst" }
Store(own, foreign, pattern, layout) ==
    LET o == [ i \in 1..own |-> [ key |-> OwnKey(i), item |-> ItemOf(pattern, i, own) ] ]
        f == [ j \in 1..foreign |-> [ key |-> ForeignKey(j), item |-> Garbage ] ]
    IN  IF layout = "ownFirst" THEN o \o f ELSE f \o o

Totals == (PRUNE_THRESHOLD - 1)..(PRUNE_THRESHOLD + MaxExcess)
OwnCounts(total) == { 0, PRUNE_COUNT - 1, PRUNE_COUNT, PRUNE_COUNT + 1, total }

PruneInit ==
    /\ HookInit
    /\ ~apiKey /\ ~localFull
    /\ cache = EmptyCache
    /\ pc = PcNone
    /\ ParserAtRest
    /\ \E total \in Totals, pattern \in Patterns, layout \in Layouts :
          \E own \in OwnCounts(total) :
              session = [ items |-> Store(own, total - own, pattern, layout),
                          now |-> 2 * PRUNE_THRESHOLD, writes |-> 0,
                          removed |-> {}, wrote |-> << >> ]

\* The keys writeCache is called with: the first of the start, or a new one
WriteIds == { 1, 2 * PRUNE_THRESHOLD + session.writes }

\* writeCache(book.id, chIdx, idx, density, segments) at time session.now
WriteCache(i) ==
    /\ session.writes < MaxWrites
    /\ \E left \in { pruneCache(session.items) } :
          session' = [ items |-> writeCacheStore(session.items, OwnKey(i),
                                                 session.now, ~sessionFull),
                       now |-> session.now + 1,
                       writes |-> session.writes + 1,
                       removed |-> { session.items[k].key : k \in 1..Len(session.items) }
                                     \ { left[k].key : k \in 1..Len(left) },
                       wrote |-> IF sessionFull THEN << >> ELSE << OwnKey(i) >> ]
    /\ UNCHANGED << hookVars, pc, parserVars >>

PruneNext == \E i \in WriteIds : WriteCache(i)

PruneSpec == PruneInit /\ [][PruneNext]_vars

(***************************************************************************)
(* Properties of the scheduler                                             *)
(***************************************************************************)
RECURSIVE IsSubseq(_, _)
\* a is b with some elements left out
IsSubseq(a, b) ==
    IF a = << >> THEN TRUE
    ELSE IF b = << >> THEN FALSE
    ELSE IF Head(a) = Head(b) THEN IsSubseq(Tail(a), Tail(b))
    ELSE IsSubseq(a, Tail(b))

StartedIdx(started) == [ i \in 1..Len(started) |-> started[i].idx ]

InQueue(idx) == \E i \in 1..Len(queue) : queue[i] = idx

\* C1 (as claimed): within one chunk generation, the number of paragraph
\* operations started by drain and not yet completed never exceeds
\* MAX_CONCURRENT.
C1_ConcurrencyBound == Cardinality(ops) <= MAX_CONCURRENT

\* C2 (as claimed): when an enrichment call started in an earlier chunk
\* generation resolves, the paragraph states of the current generation are
\* left as they are.
C2_StaleResultDiscarded ==
    [][ (last'.kind \in {"resume", "fallback"} /\ last'.stale)
            => paragraphs' = paragraphs ]_vars

\* C3 (as claimed): a paragraph whose two enrichment attempts both failed got
\* exactly two calls and ends done with the one-segment fallback of its raw
\* text, never in error.
C3_FallbackOnPersistentFailure ==
    [][ \A o \in ops :
          (o \notin ops' /\ last'.kind = "fallback" /\ ~last'.stale)
            => /\ o.calls = 2
               /\ paragraphs'[o.idx + 1].status = "done"
               /\ paragraphs'[o.idx + 1].segments = Fallback(paragraphs[o.idx + 1].raw) ]_vars

\* C4: whenever process(idx) runs while the cache holds an entry under
\* (book, chunk, idx, density), the paragraph is done with exactly the
\* entry's segments at the end of the step, no enrichment call is pending
\* for it and the entry is what it was; so processing the key again yields
\* the same segments.
C4_IdempotentCacheHit ==
    [][ \A i \in 1..Len(last'.started) :
          LET idx == last'.started[i].idx
              key == cacheKey(book, chapterIdx, idx, density)
          IN  (book # 0 /\ key \in DOMAIN cache')
                => /\ paragraphs'[idx + 1].status = "done"
                   /\ paragraphs'[idx + 1].segments = cache'[key]
                   /\ ~\E o \in ops' : o.idx = idx /\ o.gen = gen'
                   /\ (key \in DOMAIN cache => cache'[key] = cache[key]) ]_vars

C4_Witness ==
    /\ last.kind = "enqueue"
    /\ Len(last.started) = 1
    /\ cacheKey(book, chapterIdx, last.started[1].idx, density) \in DOMAIN cache
    /\ paragraphs[last.started[1].idx + 1].status = "done"

\* C5: the process(idx) calls of a step are made in queue order: with Q the
\* queue before the step (and the index the step's enqueue accepted), the
\* step removes a prefix of Q, starts a subsequence of that prefix in
\* order, and leaves the rest of Q as the queue.
C5_FifoStart ==
    [][ \E X \in { << >> } \cup { << i >> : i \in IdxRange } :
          /\ X # << >> => last'.kind = "enqueue"
          /\ LET Q == queue \o X
             IN  \E k \in 0..Len(Q) :
                    /\ queue' = SubSeq(Q, k + 1, Len(Q))
                    /\ IsSubseq(StartedIdx(last'.started), SubSeq(Q, 1, k)) ]_vars

C5_Witness ==
    /\ last.kind = "resume"
    /\ Len(last.started) = 1
    /\ Len(queue) >= 1
    /\ last.started[1].idx < queue[1]

\* C9: enqueue(idx) for a paragraph that does not exist, is not idle, is
\* already queued or is in flight changes neither the queue, the in-flight
\* set, the counter, the paragraph states nor the pending operations, and
\* starts nothing.
EnqueueIsNoOp(idx) ==
    \/ ~(idx >= 0 /\ idx < Len(paragraphs))
    \/ paragraphs[idx + 1].status # "idle"
    \/ InQueue(idx)
    \/ idx \in inFlight

C9_EnqueueNoOp ==
    [][ \A idx \in IdxRange :
          (EnqueueIsNoOp(idx) /\ Enqueue(idx))
            => /\ UNCHANGED << queue, inFlight, concurrent, paragraphs, ops >>
               /\ last'.started = << >> ]_vars

C9_Witness ==
    /\ last.kind = "rejected"
    /\ queue # << >>
    /\ inFlight # {}
    /\ \E i \in 1..Len(paragraphs) : paragraphs[i].status = "done"

\* C10 (as claimed): within a chunk generation a paragraph's state changes
\* only idle -> loading, loading -> done, loading -> error, and idle -> done
\* on a cache hit; a done or error paragraph never changes.
StepAllowed(p, q, idx) ==
    \/ q = p
    \/ p.status = "idle" /\ q.status = "loading" /\ q.segments = p.segments
    \/ p.status = "loading" /\ q.status \in {"done", "error"}
    \/ /\ p.status = "idle" /\ q.status = "done"
       /\ \E i \in 1..Len(last'.started) :
             last'.started[i].idx = idx /\ last'.started[i].hit

C10_ParagraphStateMachine ==
    [][ gen' = gen =>
          \A i \in 1..Len(paragraphs) :
             /\ i <= Len(paragraphs')
             /\ paragraphs'[i].raw = paragraphs[i].raw
             /\ StepAllowed(paragraphs[i], paragraphs'[i], i - 1) ]_vars

\* C12 (as claimed): in the step in which a paragraph reaches done,
\* recordWords is called exactly once for that paragraph, with the segments
\* the paragraph displays, whether it completes through an enrichment call
\* or through a cache hit.
C12_VocabularySink ==
    [][ \A i \in DOMAIN paragraphs' :
          ( /\ paragraphs'[i].status = "done"
            /\ \/ i \notin DOMAIN paragraphs
               \/ paragraphs[i].status # "done" )
          => Cardinality({ k \in DOMAIN last'.recorded :
                             /\ last'.recorded[k].idx = i - 1
                             /\ last'.recorded[k].segments = paragraphs'[i].segments }) = 1
    ]_vars

\* The same, for paragraphs that complete through an enrichment call only
C12_SinkOnEnrichment ==
    [][ \A i \in DOMAIN paragraphs' :
          ( /\ paragraphs'[i].status = "done"
            /\ \/ i \notin DOMAIN paragraphs
               \/ paragraphs[i].status # "done"
            /\ \A k \in DOMAIN last'.started :
                  last'.started[k].idx = i - 1 => ~last'.started[k].hit )
          => Cardinality({ k \in DOMAIN last'.recorded :
                             /\ last'.recorded[k].idx = i - 1
                             /\ last'.recorded[k].segments = paragraphs'[i].segments }) = 1
    ]_vars

C17_CacheKeyIntegrity ==
    \A k \in DOMAIN cache :
        cache[k] = AsSegments(Translated(CallText(RawText(k[1], k[2], k[3])), k[4]))

\* The same, taking the fallback of the key's raw text for an enrichment
C17_KeyMatchesRawText ==
    \A k \in DOMAIN cache :
        \/ cache[k] = AsSegments(Translated(CallText(RawText(k[1], k[2], k[3])), k[4]))
        \/ cache[k] = Fallback(RawText(k[1], k[2], k[3]))

\* The paragraph idx is loading
Loading(idx) == idx < Len(paragraphs) /\ paragraphs[idx + 1].status = "loading"

\* C18: without resets and with calls that return, every index that is
\* queued or being processed leads to its paragraph being done or in
\* error, a non-empty queue leads to an empty queue, and a counter above
\* 0 leads to the counter 0.
C18_QueueProgress ==
    /\ \A idx \in IdxRange :
          (InQueue(idx) \/ Loading(idx)) ~>
              (/\ ~InQueue(idx)
               /\ idx < Len(paragraphs)
               /\ paragraphs[idx + 1].status \in {"done", "error"})
    /\ (queue # << >>) ~> (queue = << >>)
    /\ (concurrent # 0) ~> (concurrent = 0 /\ queue = << >>)

\* Two indices wait in the queue behind two outstanding calls
C18_Witness ==
    /\ Len(queue) = 2
    /\ Cardinality(ops) = MAX_CONCURRENT
    /\ \A i \in DOMAIN queue : Loading(queue[i]) = FALSE

\* C20 (as claimed): when both attempts failed and the fallback is
\* substituted, no cache entry is written.
C20_CacheWritesOnlyOnSuccess ==
    [][ last'.kind = "fallback" => cache' = cache ]_vars

\* C21 (as claimed): the completion of an operation started before a reset
\* leaves the queue, the in-flight set and the counter of the current
\* generation as they are, and the operations of the current generation
\* that are started and not completed never exceed MAX_CONCURRENT.
C21_StaleBookkeeping ==
    [][ /\ (last'.kind \in {"resume", "fallback"} /\ last'.stale)
              => /\ queue' = queue
                 /\ inFlight' = inFlight
                 /\ concurrent' = concurrent
        /\ Cardinality({ o \in ops' : o.gen = gen' }) <= MAX_CONCURRENT ]_vars

\* C22 (as claimed): between scheduler steps the counter equals the size
\* of the in-flight set, and both equal the number of operations started
\* and not yet completed.
C22_CounterConsistency ==
    /\ concurrent = Cardinality(inFlight)
    /\ concurrent = Cardinality(ops)

\* C25 (as claimed): when processChunk has returned segments for a
\* paragraph of the current generation, the paragraph is done with those
\* segments at the end of the step, whether or not the cache write or the
\* vocabulary sink failed.
C25_SinkAndCacheFailures ==
    [][ (last'.kind \in {"resume", "fallback"} /\ ~last'.stale) =>
          \A k \in DOMAIN last'.recorded :
              LET idx == last'.recorded[k].idx
              IN  /\ idx < Len(paragraphs')
                  /\ paragraphs'[idx + 1].status = "done"
                  /\ paragraphs'[idx + 1].segments = last'.recorded[k].segments ]_vars

\* The same when only the cache write fails
C25_CacheFailureOnly ==
    [][ (last'.kind \in {"resume", "fallback"} /\ ~last'.stale /\ ~localFull) =>
          \A k \in DOMAIN last'.recorded :
              LET idx == last'.recorded[k].idx
              IN  /\ idx < Len(paragraphs')
                  /\ paragraphs'[idx + 1].status = "done"
                  /\ paragraphs'[idx + 1].segments = last'.recorded[k].segments ]_vars

\* C23: the queue holds no index twice and no index of the in-flight set,
\* and an index enters the queue only while its paragraph exists in the
\* active collection and is idle.
C23_QueueWellFormed ==
    [][ /\ \A i, j \in DOMAIN queue' : queue'[i] = queue'[j] => i = j
        /\ \A i \in DOMAIN queue' : queue'[i] \notin inFlight'
        /\ \A i \in DOMAIN queue' :
              (\A j \in DOMAIN queue : queue[j] # queue'[i]) =>
                  /\ queue'[i] >= 0 /\ queue'[i] < Len(paragraphs)
                  /\ paragraphs[queue'[i] + 1].status = "idle" ]_vars

\* Two indices are queued, the higher first, behind the in-flight ones
C23_Witness ==
    /\ Len(queue) = 2
    /\ queue[1] > queue[2]
    /\ Cardinality(inFlight) = MAX_CONCURRENT

\* C24: within one chunk generation a paragraph is never idle again once
\* it was not, and process(idx) is started only for an idle paragraph,
\* once in a step, and leaves it no longer idle; so no index has two
\* enrichment operations in one generation.
C24_NoDuplicateWork ==
    [][ /\ gen' = gen =>
              \A i \in DOMAIN paragraphs' \cap DOMAIN paragraphs :
                  paragraphs'[i].status = "idle" => paragraphs[i].status = "idle"
        /\ \A k \in DOMAIN last'.started :
              LET idx == last'.started[k].idx
              IN  /\ idx < Len(paragraphs) /\ paragraphs[idx + 1].status = "idle"
                  /\ paragraphs'[idx + 1].status # "idle"
                  /\ \A m \in DOMAIN last'.started : last'.started[m].idx = idx => m = k
        /\ \A o \in ops' \ ops :
              o \in { AfterFirstFailure(q) : q \in ops } \cup { AfterTimer(q) : q \in ops }
                \/ \E k \in DOMAIN last'.started :
                      last'.started[k].idx = o.idx /\ ~last'.started[k].hit
        /\ \A o, q \in ops' : (o.idx = q.idx /\ o.gen = q.gen) => o = q ]_vars

\* A paragraph is enqueued again, while its call is outstanding, by the
\* lookahead of its neighbour, and is refused
C24_Witness ==
    /\ last.kind = "rejected"
    /\ Cardinality(ops) = 2
    /\ Len(queue) = 1
    /\ \E i \in DOMAIN paragraphs : paragraphs[i].status = "done"

\* C30: the fetch status becomes error only by a failure of the running
\* stream before its first chunk was shown, and such a failure does make
\* it error; a failure after the first chunk leaves the status done and
\* the paragraphs and the chunk list as they are.
C30_LoadFailureVisibility ==
    [][ /\ (fetchStatus' = "error" /\ fetchStatus # "error")
              => (stream = "open" /\ stream' = "failed" /\ ~firstShown)
        /\ StreamFails =>
              IF ~firstShown THEN fetchStatus' = "error"
              ELSE /\ fetchStatus' = "done"
                   /\ paragraphs' = paragraphs
                   /\ chaptersRef' = chaptersRef ]_vars

\* The stream has failed after its first chunk was shown
C30_Witness ==
    /\ stream = "failed"
    /\ fetchStatus = "done"
    /\ Len(chaptersRef) = 1
    /\ paragraphs # << >>

\* C31: the first chunk a stream emits becomes the active chunk, every
\* paragraph of it idle and without segments; a later chunk is appended to
\* the chunk list and leaves the active chunk index, the paragraphs, the
\* queue, the in-flight set and the counter as they are.
C31_FirstChunkAndFrame ==
    [][ OnChapter =>
          /\ \E chapter \in { ChunkOf(streamBook, Len(chaptersRef)) } :
                /\ chaptersRef' = Append(chaptersRef, chapter)
                /\ Len(chaptersRef) = 0 =>
                      /\ chapterIdx' = 0
                      /\ DOMAIN paragraphs' = DOMAIN chapter.paragraphs
                      /\ \A i \in DOMAIN paragraphs' :
                            /\ paragraphs'[i].raw = chapter.paragraphs[i]
                            /\ paragraphs'[i].segments = Null
                            /\ paragraphs'[i].status = "idle"
          /\ Len(chaptersRef) > 0 =>
                UNCHANGED << chapterIdx, paragraphs, queue, inFlight, concurrent >> ]_vars

\* The second chunk has arrived while the first was being processed
C31_Witness ==
    /\ Len(chaptersRef) = 2
    /\ chapterIdx = 0
    /\ gen = 1
    /\ inFlight # {}
    /\ \E i \in DOMAIN paragraphs : paragraphs[i].status = "done"

C34_NavigateNoOp ==
    [][ \A idx \in NavRange :
          (~(idx >= 0 /\ idx < Len(chaptersRef)) /\ Navigate(idx)) =>
              UNCHANGED << chapterIdx, paragraphs, queue, inFlight, concurrent, gen,
                           ops, chaptersRef >> ]_vars

\* A navigation was ignored while calls were outstanding and the second
\* chunk had not arrived
C34_Witness ==
    /\ last.kind = "ignored"
    /\ Len(chaptersRef) = 1
    /\ stream = "open"
    /\ Cardinality(inFlight) = 2

(***************************************************************************)
(* Properties of processChunk                                              *)
(***************************************************************************)
RECURSIVE Concat(_)
\* The texts of the segments, joined in order
Concat(segments) ==
    IF segments = << >> THEN << >>
    ELSE Head(segments).text \o Concat(Tail(segments))

\* C6 (as claimed): with a service whose segments concatenate to the text
\* it was asked to transform, the segments processChunk returns concatenate
\* to the original paragraph text, whatever its length; the fallback's one
\* segment is the original paragraph text.
C6_SegmentConcatenation ==
    pc.phase = "returned" =>
        /\ Concat(pc.result) = pc.raw
        /\ pc.fellBack => (Len(pc.result) = 1 /\ pc.result[1].text = pc.raw)

\* C11 (as claimed): segments that processChunk returns from an attempt,
\* which become the paragraph's segments and its cache entry, form a
\* non-empty list whose elements all have a non-empty text and the tag en
\* or pl.
C11_ResultValidation ==
    (pc.phase = "returned" /\ ~pc.fellBack) =>
        /\ Len(pc.result) > 0
        /\ \A i \in 1..Len(pc.result) :
              /\ pc.result[i].text # << >>
              /\ pc.result[i].lang \in {"en", "pl"}

\* The answers attempt() accepts for the invocation's text
Accepted == { AsSegments(a) : a \in { a \in PcAnswers(CallText(pc.raw)) : AttemptOk(a) } }

\* C19: processChunk returns from its first attempt after one call and
\* never with the fallback; a failed first attempt leads to the backoff
\* wait with no further call made; the second call is made only when the
\* wait is over; from the second attempt it returns after two calls, with
\* the segments of the retry when it succeeded and with the fallback only
\* when it failed; so no invocation makes more than two calls.
C19_SingleRetry ==
    [][ /\ pc.phase = "attempt1" =>
              \/ pc'.phase = "returned" /\ pc'.calls = 1 /\ ~pc'.fellBack
                   /\ pc'.result \in Accepted
              \/ pc'.phase = "backoff" /\ pc'.calls = 1 /\ pc'.asked = pc.asked
        /\ pc.phase = "backoff" =>
              pc'.phase = "attempt2" /\ pc'.calls = 2 /\ Len(pc'.asked) = 2
        /\ pc.phase = "attempt2" =>
              /\ pc'.phase = "returned" /\ pc'.calls = 2
              /\ IF pc'.fellBack THEN pc'.result = Fallback(pc.raw)
                 ELSE pc'.result \in Accepted /\ pc'.result # Fallback(pc.raw)
        /\ pc'.phase = "attempt2" => pc.phase = "backoff"
        /\ pc'.calls <= 2 ]_vars

C19_Witness ==
    pc.phase = "returned" /\ pc.calls = 2 /\ ~pc.fellBack /\ Len(pc.raw) > MAX_PARA_CHARS

(***************************************************************************)
(* Properties of the parser                                                *)
(***************************************************************************)
CeilDiv(a, b) == (a + b - 1) \div b

\* C7 (as claimed): a document with no heading lines and N valid
\* paragraphs emits exactly ceil(N / 30) chunks, each but the last of 30
\* paragraphs and the last of the remainder, the i-th titled "Part i".
C7_EarlyChunkEmission ==
    (doc.kind = "plain" /\ parser.phase = "returned") =>
        LET E == parser.emitted
        IN  /\ Len(E) = CeilDiv(doc.n, STREAM_CHUNK_SIZE)
            /\ \A i \in 1..Len(E) :
                  /\ Len(E[i].paragraphs) =
                        IF i < Len(E) THEN STREAM_CHUNK_SIZE
                        ELSE doc.n - STREAM_CHUNK_SIZE * (Len(E) - 1)
                  /\ E[i].title = PartTitle(i)

\* s occurs in t
IsInfix(s, t) ==
    \E i \in 0..(Len(t) - Len(s)) : SubSeq(t, i + 1, i + Len(s)) = s

\* Every paragraph text the parser holds or has emitted
ParagraphTexts ==
    { parser.pendingLine } \cup Range(parser.currentParagraphs)
        \cup UNION { Range(parser.emitted[i].paragraphs) : i \in 1..Len(parser.emitted) }

\* The line starts with a heading keyword, in any case
StartsWithKeyword(t) == \E k \in Keywords : StartsWith(FoldAll(t), k)

\* The line starts with a heading keyword, in any case, that is the whole
\* line or is followed by a character other than a letter, a digit or _
StartsWithKeywordWord(t) ==
    \E k \in Keywords :
        /\ StartsWith(FoldAll(t), k)
        /\ Len(t) > Len(k) =>
              t[Len(k) + 1] \notin Range(UpperChars) \cup Range(LowerChars)
                                     \cup Range(DigitChars) \cup { "_" }

\* The candidate line of a heading document, trimmed
Candidate == trim(CHOOSE x \in Candidates : \E t \in BOOLEAN : doc = HeadingDoc(x, t))

\* C8 (as claimed): a non-blank content line is treated as a chunk boundary
\* if and only if it starts with a heading keyword in any case, is shorter
\* than 80 characters and does not end in a comma; a line treated as a
\* heading is in no paragraph's text.
C8_HeadingDetection ==
    /\ \A i \in 1..Len(parser.lines) :
          LET t == parser.lines[i].text
          IN  parser.lines[i].boundary
                <=> (StartsWithKeyword(t) /\ Len(t) < 80 /\ t[Len(t)] # ",")
    /\ (doc.kind = "heading" /\ StartsWithKeyword(Candidate)
          /\ Len(Candidate) < 80 /\ Candidate[Len(Candidate)] # ",")
         => \A text \in ParagraphTexts : ~IsInfix(Candidate, text)

\* C8 (amended): a non-blank content line is treated as a chunk boundary
\* if and only if it starts with a heading keyword in any case that ends at
\* a word boundary, is shorter than 80 characters and does not end in a
\* comma; a line treated as a heading is in no paragraph's text.
C8_HeadingDetectionAtWordBoundary ==
    /\ \A i \in 1..Len(parser.lines) :
          LET t == parser.lines[i].text
          IN  parser.lines[i].boundary
                <=> (StartsWithKeywordWord(t) /\ Len(t) < 80 /\ t[Len(t)] # ",")
    /\ (doc.kind = "heading" /\ StartsWithKeywordWord(Candidate)
          /\ Len(Candidate) < 80 /\ Candidate[Len(Candidate)] # ",")
         => \A text \in ParagraphTexts : ~IsInfix(Candidate, text)

C8_Witness ==
    /\ doc.kind = "heading"
    /\ parser.lines # << >>
    /\ parser.lines[Len(parser.lines)].boundary
    /\ Len(parser.emitted) = 1
    /\ parser.currentTitle = Candidate


\* C14: when the book has no plain-text format, or the response has an
\* error status or no body, streamBookChapters rejects and the chunk
\* callback has never been invoked.
C14_FailureBeforeContent ==
    ( \/ doc.formats \cap { "text/plain; charset=utf-8", "text/plain; charset=us-ascii",
                            "text/plain" } = {}
      \/ doc.res \in {"status", "nobody"} )
    => /\ parser.phase \in {"start", "rejected"}
       /\ parser.emitted = << >>
       /\ fed = [ lines |-> 0, off |-> 0 ]

\* A book that lists only an HTML format has been rejected
C14_Witness ==
    /\ parser.phase = "rejected"
    /\ doc.formats = { "text/html" }
    /\ doc.res = "ok"

\* The text of the k-th paragraph of a plain document
ParagraphText(k) ==
    IF k % 7 = 3
    THEN << "T", "h", "e", " ", "p", "a", "r", "a", "g", "r", "a", "p", "h", " ",
            "n", "u", "m", "b", "e", "r", " " >> \o Decimal(k)
            \o << " ", "i", "s", " ", "l", "o", "n", "g", "." >>
    ELSE << "T", "h", "e", " ", "p", "a", "r", "a", "g", "r", "a", "p", "h", " " >>
            \o Decimal(k) \o << "." >>

\* The paragraphs of the chunks emitted before the i-th
RECURSIVE EmittedBefore(_)
EmittedBefore(i) ==
    IF i <= 1 THEN 0
    ELSE EmittedBefore(i - 1) + Len(parser.emitted[i - 1].paragraphs)

\* C16: chunks are delivered with the indices 0, 1, 2, ...; a document
\* without start marker gives no chunk; no emitted paragraph holds text of
\* the lines before the start marker, of the marker lines or of the lines
\* after the end marker; and the paragraphs of a document without headings
\* come out in document order, none after the end marker.
C16_MarkerScopingAndOrder ==
    /\ \A i \in DOMAIN parser.emitted : parser.emitted[i].index = i - 1
    /\ doc.kind = "nostart" => parser.emitted = << >>
    /\ \A i \in DOMAIN parser.emitted : \A j \in DOMAIN parser.emitted[i].paragraphs :
          /\ \A l \in { TitleLine, StartLine, EndLine, LicenseLine } :
                ~IsInfix(l, parser.emitted[i].paragraphs[j])
          /\ doc.kind = "plain" =>
                /\ EmittedBefore(i) + j <= doc.n
                /\ parser.emitted[i].paragraphs[j] = ParagraphText(EmittedBefore(i) + j)

\* The end marker of a document of more than one chunk has ended the
\* stream before the text after it was read
C16_Witness ==
    /\ doc.kind = "plain"
    /\ parser.phase = "returned"
    /\ Len(parser.emitted) = 2
    /\ doc.lines[Len(doc.lines)] = LicenseLine
    /\ fed # DocEnd


\* What was handed to the callback: titles and paragraph lists
Delivered(emitted) ==
    [ i \in DOMAIN emitted |->
        [ title |-> emitted[i].title, paragraphs |-> emitted[i].paragraphs ] ]

\* The chunk a reference run closes: titled with the pending heading, or
\* Part n, n the 1-based emission index
RefChunk(r) ==
    [ title |-> IF r.title # << >> THEN r.title ELSE PartTitle(Len(r.out) + 1),
      paragraphs |-> r.paras ]

\* The chunks of a document with chapters, by the rules of the claims: a
\* heading closes a non-empty open chunk under the previous title and
\* becomes the next title; the 30th paragraph closes the open chunk and
\* uses the title up; the end closes a non-empty open chunk
RECURSIVE RefChunks(_, _)
RefChunks(items, r) ==
    IF items = << >>
    THEN (IF r.paras # << >> THEN Append(r.out, RefChunk(r)) ELSE r.out)
    ELSE IF Head(items) = "H"
    THEN RefChunks(Tail(items),
                   [ r EXCEPT !.h = @ + 1,
                              !.title = HeadingLine(r.h + 1),
                              !.paras = << >>,
                              !.out = IF r.paras # << >> THEN Append(@, RefChunk(r)) ELSE @ ])
    ELSE LET r1 == [ r EXCEPT !.k = @ + 1, !.paras = Append(@, ParagraphText(r.k + 1)) ]
         IN  IF Len(r1.paras) = 30
             THEN RefChunks(Tail(items),
                            [ r1 EXCEPT !.out = Append(@, RefChunk(r1)),
                                        !.paras = << >>, !.title = << >> ])
             ELSE RefChunks(Tail(items), r1)

RefStart == [ h |-> 0, k |-> 0, title |-> << >>, paras |-> << >>, out |-> << >> ]

\* C26: at a heading the pending paragraph is flushed first; a non-empty
\* open chunk is emitted under the previous heading, or Part n when none
\* is pending; the heading titles the next chunk; nothing is emitted for
\* an empty open chunk; and a heading titles one chunk at most.
C26_HeadingBoundaryEmission ==
    doc.kind = "chapters" =>
        LET ref == RefChunks(doc.items, RefStart)
            out == Delivered(parser.emitted)
        IN  /\ Len(out) <= Len(ref)
            /\ \A i \in DOMAIN out : out[i] = ref[i]
            /\ parser.phase = "returned" => out = ref
            /\ \A i, j \in DOMAIN out :
                  (out[i].title = out[j].title /\ CHAPTER_RE(out[i].title)) => i = j

\* The heading of a chapter of more than 30 paragraphs has titled the
\* first chunk of the chapter, and the rest went out as Part 2
C26_Witness ==
    /\ doc.kind = "chapters"
    /\ parser.phase = "returned"
    /\ Len(parser.emitted) = 3
    /\ parser.emitted[1].title = HeadingLine(1)
    /\ parser.emitted[2].title = PartTitle(2)
    /\ parser.emitted[3].title = HeadingLine(2)

\* C27 (as claimed): when the stream is over, the paragraphs of the
\* emitted chunks, in emission order, are the qualifying paragraphs of the
\* content, none lost, including the text pending at the end.
C27_ContentPreservation ==
    (doc.kind \in {"plain", "chapters"} /\ parser.phase = "returned") =>
        /\ EmittedBefore(Len(parser.emitted) + 1) = doc.n
        /\ \A i \in DOMAIN parser.emitted : \A j \in DOMAIN parser.emitted[i].paragraphs :
              parser.emitted[i].paragraphs[j] = ParagraphText(EmittedBefore(i) + j)

\* The same for texts whose last line ends in a newline
C27_TerminatedContent ==
    (doc.kind \in {"plain", "chapters"} /\ parser.phase = "returned"
        /\ (doc.terminated \/ doc.lines[Len(doc.lines)] = LicenseLine)) =>
        /\ EmittedBefore(Len(parser.emitted) + 1) = doc.n
        /\ \A i \in DOMAIN parser.emitted : \A j \in DOMAIN parser.emitted[i].paragraphs :
              parser.emitted[i].paragraphs[j] = ParagraphText(EmittedBefore(i) + j)

\* C28: every chunk handed to the callback holds 1 to 30 paragraphs, and
\* the open chunk holds fewer than 30 once a read has been processed.
C28_ChunkSizeBound ==
    /\ \A i \in DOMAIN parser.emitted :
          /\ Len(parser.emitted[i].paragraphs) >= 1
          /\ Len(parser.emitted[i].paragraphs) <= 30
    /\ Len(parser.currentParagraphs) < 30

\* A chunk of 30 has gone out and the open chunk holds 29
C28_Witness ==
    /\ Len(parser.emitted) >= 1
    /\ Len(parser.emitted[1].paragraphs) = 30
    /\ Len(parser.currentParagraphs) = 29

\* C29: however the text was split into reads, when the stream is over
\* the chunks emitted are those of the same text delivered in one read.
C29_ReadBoundaryIndependence ==
    parser.phase = "returned" => parser.emitted = OneRead.emitted

\* A read has ended in the middle of a content line after a chunk went out
C29_Witness ==
    /\ parser.phase = "reading"
    /\ parser.inBook
    /\ fed.off > 0
    /\ fed # DocEnd
    /\ parser.buffer # << >>
    /\ parser.emitted # << >>

(***************************************************************************)
(* Properties of writeCache                                                *)
(***************************************************************************)
KeysOf(items) == { items[i].key : i \in 1..Len(items) }

\* How recent an item is: its processedAt, and 0 when it has none that
\* can be read
Recency(item) ==
    IF item.parses /\ item.stamped THEN item.processedAt ELSE 0

\* What a writeCache call does to the store, with the number of items it
\* evicts above the threshold given by Evicted(own)
Eviction(Evicted(_)) ==
    \A i \in WriteIds :
        WriteCache(i) =>
            LET before == session.items
                after == session'.items
                own == { e \in Range(before) : e.key.own }
                gone == { e \in own : e.key \in session'.removed }
            IN  /\ session'.removed \subseteq KeysOf(before)
                /\ \A k \in session'.removed : k.own
                /\ SelectSeq(after, LAMBDA e : ~e.key.own)
                     = SelectSeq(before, LAMBDA e : ~e.key.own)
                /\ KeysOf(after) = (KeysOf(before) \ session'.removed)
                                      \cup Range(session'.wrote)
                /\ \A e \in own \ gone :
                      e.key \notin Range(session'.wrote) => e \in Range(after)
                /\ Len(before) > PRUNE_THRESHOLD =>
                      /\ Cardinality(gone) = Evicted(own)
                      /\ \A g \in gone : \A e \in own \ gone :
                            Recency(g.item) <= Recency(e.item)
                /\ Len(before) <= PRUNE_THRESHOLD => session'.removed = {}

AtMostFifty(own) ==
    IF Cardinality(own) < PRUNE_COUNT THEN Cardinality(own) ELSE PRUNE_COUNT

Fifty(own) == PRUNE_COUNT

\* C33 (as claimed): a writeCache call on a store of more than 200 items
\* first evicts the 50 items of the hook's keys with the oldest processedAt,
\* unreadable items counting as oldest; every evicted item is at most as
\* recent as every surviving item of the hook's keys, no other key is
\* removed, and a call on a store of at most 200 items evicts nothing.
C33_CacheEvictionOfFifty == [][ Eviction(Fifty) ]_vars

\* C33 (amended): as above, the number of evicted items being 50 or, when
\* the store holds fewer than 50 items of the hook's keys, all of them.
C33_CacheEviction == [][ Eviction(AtMostFifty) ]_vars

\* A write has evicted 50 items, and an older item of the hook and the
\* keys of other code are still in the store
C33_Witness ==
    /\ Cardinality(session.removed) = PRUNE_COUNT
    /\ \E k \in KeysOf(session.items) : k.own /\ k \notin Range(session.wrote)
    /\ \E k \in KeysOf(session.items) : ~k.own
    /\ Len(session.wrote) = 1

====
